---- MODULE Spec2Model ----
(***************************************************************************)
(* FlatBufferBuilder (flatbuffers/rust/flatbuffers/src/builder.rs) as a    *)
(* state machine.  The builder's fields are the variables; every public    *)
(* method is one action.  Private methods are operators over a record      *)
(* `s` holding the fields of `self`, the value returned by the last call   *)
(* (`ret`) and whether the call panicked (`panicked`).                     *)
(*                                                                         *)
(* Machine words: `usize` values are written in their two's-complement     *)
(* signed reading, so a value of 2^63 or more is a negative integer here   *)
(* (`(!n).wrapping_add(1)` is `-n`).  Unsigned comparisons are ULe / ULt.  *)
(* Scalars of w bytes are encoded by LE, which reads a negative integer as *)
(* its two's-complement bit pattern.                                       *)
(*                                                                         *)
(* `debug_assertions` is the build's cfg(debug_assertions): with it,       *)
(* debug_assert! panics and integer overflow panics; without it,           *)
(* debug_assert! is compiled out and integer arithmetic wraps.             *)
(***************************************************************************)
EXTENDS Integers, Sequences, FiniteSets, TLC

VARIABLES
    owned_buf,              \* Vec<u8>: the arena, owned_buf[i+1] is byte i
    head,                   \* usize: index of the first live byte
    field_locs,             \* Vec<FieldLoc>: [off, id] of the open table
    written_vtable_revpos,  \* Vec<UOffsetT>: tail distances of the vtables
    nested,                 \* bool
    finished,               \* bool
    min_align,              \* usize
    debug_assertions,       \* the build configuration, fixed at start
    panicked,               \* the last operation aborted; nothing follows
    op,                     \* history: the last public operation
    arg,                    \* history: its arguments
    ret,                    \* history: the handle it returned, or NoRet
    before,                 \* history: self as it was before that operation
    open_table,             \* caller: the handle start_table returned last
    in_table,               \* history: start_table opened the current nesting
    fields,                 \* history: the slots pushed since start_table
    tables,                 \* history: the tables ended since new/reset/finish
    calls,                  \* history: <<name, arguments>> of new_with_capacity and
                            \* the calls made since, or LongRun
    ops_left                \* operations the run may still make (bounded)

vars == <<owned_buf, head, field_locs, written_vtable_revpos, nested, finished,
          min_align, debug_assertions, panicked, op, arg, ret, before, open_table,
          in_table, fields, tables, calls, ops_left>>

-----------------------------------------------------------------------------
(* Bounds of the model *)

\* calls after new_with_capacity remembered in `calls`
MaxCalls == 4

\* public calls in a run of the specification of both builds
MaxBuildOps == 2

\* operations in one run of Spec
MaxOps == 3
\* operations in one run of SpecTables
MaxTableOps == 6
\* largest capacity the arena may grow to
MaxCap == 32

-----------------------------------------------------------------------------
(* primitives.rs *)

SIZE_U8 == 1
SIZE_U16 == 2
SIZE_UOFFSET == 4
SIZE_SOFFSET == 4
SIZE_VOFFSET == 2
FILE_IDENTIFIER_LENGTH == 4
FLATBUFFERS_MAX_BUFFER_SIZE == 2147483647

\* the placeholder 0xF0F0F0F0 write_vtable pushes, as a two's-complement i32
VTABLE_SENTINEL == -252645136

\* no handle: a method that returns (), an Option that is None
NoRet == 0 - 1

-----------------------------------------------------------------------------
(* Words and bytes *)

\* a <= b on usize
ULe(a, b) == IF (a >= 0) = (b >= 0) THEN a <= b ELSE b < 0

\* a < b on usize
ULt(a, b) == ~ULe(b, a)

RECURSIVE BitAnd(_, _)
\* a & b on non-negative integers
BitAnd(a, b) ==
    IF a = 0 \/ b = 0 THEN 0
    ELSE (a % 2) * (b % 2) + 2 * BitAnd(a \div 2, b \div 2)

RECURSIVE Pow2Above(_, _)
\* the least p * 2^k that is greater than m
Pow2Above(p, m) == IF p > m THEN p ELSE Pow2Above(2 * p, m)

RECURSIVE LE(_, _)
\* emplace_scalar: the n little-endian bytes of v
LE(v, n) == IF n = 0 THEN <<>> ELSE <<v % 256>> \o LE(v \div 256, n - 1)

RECURSIVE ReadU(_)
\* read_scalar of an unsigned value from its little-endian bytes
ReadU(bytes) ==
    IF bytes = <<>> THEN 0 ELSE Head(bytes) + 256 * ReadU(Tail(bytes))

\* read_scalar::<i32> of 4 little-endian bytes
ReadI32(bytes) ==
    IF bytes[4] >= 128
    THEN ReadU(<<bytes[1], bytes[2], bytes[3], bytes[4] - 128>>) - 1073741824 - 1073741824
    ELSE ReadU(bytes)

\* n zero bytes
Zeros(n) == [i \in 1..n |-> 0]

\* buf[at .. at + n), at counted from 0
Slice(buf, at, n) == [i \in 1..n |-> buf[at + i]]

\* buf with bytes copied to buf[at .. at + Len(bytes))
WriteAt(buf, at, bytes) ==
    [i \in 1..Len(buf) |->
        IF i > at /\ i <= at + Len(bytes) THEN bytes[i - at] ELSE buf[i]]

-----------------------------------------------------------------------------
(* self *)

\* A method is a chain of steps; each step passes a panicked record on
\* unchanged, so that a panic ends the method where it happens.

Self ==
    [owned_buf |-> owned_buf, head |-> head, field_locs |-> field_locs,
     written_vtable_revpos |-> written_vtable_revpos, nested |-> nested,
     finished |-> finished, min_align |-> min_align,
     debug |-> debug_assertions, panicked |-> FALSE, ret |-> NoRet,
     vt |-> <<>>, vt_use |-> NoRet, offsets |-> <<>>]

Panic(s) == [s EXCEPT !.panicked = TRUE]

\* assert!(cond)
Require(s, cond) == IF s.panicked \/ cond THEN s ELSE Panic(s)

\* debug_assert!(cond)
DebugRequire(s, cond) == IF s.debug THEN Require(s, cond) ELSE s

used_space(s) == Len(s.owned_buf) - s.head

unused_ready_space(s) == s.head

\* padding_bytes without the two's-complement negation: buf_size & (scalar_size - 1)
padding_bytes_no_negate(buf_size, scalar_size) ==
    IF scalar_size - 1 < 0 THEN buf_size
    ELSE BitAnd(buf_size % Pow2Above(1, scalar_size - 1), scalar_size - 1)

padding_bytes(buf_size, scalar_size) ==
    LET neg == -buf_size
        mask == scalar_size - 1
    IN IF mask < 0 THEN neg
       ELSE BitAnd(neg % Pow2Above(1, mask), mask)

\* grow_owned_buf without the copy to the upper half
grow_owned_buf_no_copy(s) ==
    IF s.panicked THEN s
    ELSE [s EXCEPT !.owned_buf = s.owned_buf \o Zeros(IF Len(s.owned_buf) = 0 THEN 1
                                                       ELSE Len(s.owned_buf)),
                   !.head = s.head + (IF Len(s.owned_buf) = 0 THEN 1
                                      ELSE Len(s.owned_buf))]

\* the buffer of new_len bytes after resize, copy to the upper half, zero the lower
GrownBuf(buf, new_len) ==
    IF new_len = 1 THEN buf \o Zeros(new_len - Len(buf))
    ELSE WriteAt(WriteAt(buf \o Zeros(new_len - Len(buf)), new_len \div 2,
                         Slice(buf \o Zeros(new_len - Len(buf)), 0, new_len \div 2)),
                 0, Zeros(new_len \div 2))

\* max(1, old_len * 2)
GrownLen(old_len) == IF old_len * 2 > 1 THEN old_len * 2 ELSE 1

grow_owned_buf(s) ==
    IF s.panicked THEN s
    ELSE IF GrownLen(Len(s.owned_buf)) > FLATBUFFERS_MAX_BUFFER_SIZE THEN Panic(s)
    ELSE [s EXCEPT !.owned_buf = GrownBuf(s.owned_buf, GrownLen(Len(s.owned_buf))),
                   !.head = s.head + (GrownLen(Len(s.owned_buf)) - Len(s.owned_buf))]

\* the growth loop of ensure_capacity cut after one turn
grow_once(s, want) ==
    IF s.panicked \/ ~ULt(unused_ready_space(s), want) THEN s
    ELSE grow_owned_buf(s)

RECURSIVE grow_while(_, _)
\* while self.unused_ready_space() < want { self.grow_owned_buf(); }
grow_while(s, want) ==
    IF s.panicked \/ ~ULt(unused_ready_space(s), want) THEN s
    ELSE grow_while(grow_owned_buf(s), want)

ensure_capacity(s, want) ==
    IF s.panicked THEN s
    ELSE IF ULe(want, unused_ready_space(s)) THEN s
    ELSE IF ~ULe(want, FLATBUFFERS_MAX_BUFFER_SIZE) THEN Panic(s)
    ELSE grow_while(s, want)

\* self.head -= want
take_space(s, want) ==
    IF s.panicked THEN s ELSE [s EXCEPT !.head = s.head - want]

make_space(s, want) == take_space(ensure_capacity(s, want), want)

fill(s, zero_pad_bytes) == make_space(s, zero_pad_bytes)

track_min_align(s, alignment) ==
    IF s.panicked THEN s
    ELSE [s EXCEPT !.min_align = IF alignment > s.min_align THEN alignment
                                 ELSE s.min_align]

\* self.fill(padding_bytes(s + len, alignment))
fill_padding(s, len, alignment) ==
    fill(s, padding_bytes(used_space(s) + len, alignment))

align(s, len, alignment) ==
    fill_padding(track_min_align(s, alignment), len, alignment)

-----------------------------------------------------------------------------
(* push.rs: the Push values the builder is given *)

Scalar(v, n) ==
    [kind |-> "scalar", size |-> n, alignment |-> n, bytes |-> LE(v, n),
     value |-> v]

\* ZeroTerminatedByteSlice: [len: u32][data][0]
ZeroTerminatedByteSlice(data) ==
    [kind |-> "zt", size |-> SIZE_UOFFSET + Len(data) + 1,
     alignment |-> SIZE_UOFFSET,
     bytes |-> LE(Len(data), SIZE_UOFFSET) \o data \o <<0>>, value |-> 0]

\* &[u8]: [len: u32][data]
ByteSlice(data) ==
    [kind |-> "slice", size |-> SIZE_UOFFSET + Len(data),
     alignment |-> SIZE_UOFFSET,
     bytes |-> LE(Len(data), SIZE_UOFFSET) \o data, value |-> 0]

\* WIPOffset<T>: pushed as the forward offset from where it is written
WIPOffset(value) ==
    [kind |-> "wip", size |-> SIZE_UOFFSET, alignment |-> SIZE_UOFFSET,
     bytes |-> <<>>, value |-> value]

\* x.push(dst, rest): the bytes put in dst, given rest.len()
PushBytes(x, rest_len) ==
    IF x.kind = "wip"
    THEN LE(SIZE_UOFFSET + rest_len - x.value, SIZE_UOFFSET)
    ELSE x.bytes

\* x.push(dst, rest) panics in a debug build when the subtraction overflows
PushOverflows(x, rest_len) ==
    x.kind = "wip" /\ SIZE_UOFFSET + rest_len - x.value < 0

\* x.push(dst, rest) on the space just made, and the WIPOffset returned
emplace(s, x) ==
    IF s.panicked THEN s
    ELSE IF s.debug /\ PushOverflows(x, used_space(s) - x.size) THEN Panic(s)
    ELSE [s EXCEPT !.owned_buf = WriteAt(s.owned_buf, s.head,
                                         PushBytes(x, used_space(s) - x.size)),
                   !.ret = used_space(s)]

push(s, x) ==
    emplace(make_space(align(s, x.size, x.alignment), x.size), x)

-----------------------------------------------------------------------------
(* The state assertions *)

\* assert_nested with the assertion left out
assert_nested_unchecked(s) == s

assert_nested(s) == DebugRequire(s, s.nested)

assert_not_nested(s) == DebugRequire(s, ~s.nested)

assert_finished(s) == DebugRequire(s, s.finished)

assert_not_finished(s) == DebugRequire(s, ~s.finished)

\* self.nested = v
set_nested(s, v) == IF s.panicked THEN s ELSE [s EXCEPT !.nested = v]

\* a method that returns ()
returns_unit(s) == IF s.panicked THEN s ELSE [s EXCEPT !.ret = NoRet]

\* WIPOffset::new(self.used_space() as UOffsetT)
returns_used_space(s) == IF s.panicked THEN s ELSE [s EXCEPT !.ret = used_space(s)]

-----------------------------------------------------------------------------
(* Tables *)

track_field(s, slot_off, off) ==
    IF s.panicked THEN s
    ELSE [s EXCEPT !.field_locs = Append(s.field_locs, [off |-> off, id |-> slot_off])]

\* self.track_field(slotoff, off.value())
track_pushed(s, slotoff) == returns_unit(track_field(s, slotoff, s.ret))

push_slot_always(s, slotoff, x) ==
    track_pushed(push(assert_nested(s), x), slotoff)

push_slot(s, slotoff, x, default) ==
    IF x = default THEN returns_unit(assert_nested(s))
    ELSE push_slot_always(assert_nested(s), slotoff, x)

start_table(s) == returns_used_space(set_nested(assert_not_nested(s), TRUE))

\* vtable.rs field_index_to_field_offset
field_index_to_field_offset(field_id) == 4 + 2 * field_id

\* self.field_locs.iter().map(|fl| fl.id).max(), NoRet for None
max_voffset(locs) ==
    IF locs = <<>> THEN NoRet
    ELSE CHOOSE m \in {locs[i].id : i \in 1..Len(locs)} :
            \A i \in 1..Len(locs) : locs[i].id <= m

\* vtable_len of write_vtable with room for one slot in an empty table
VTableLenOneSlot(locs) ==
    IF max_voffset(locs) = NoRet THEN field_index_to_field_offset(1)
    ELSE max_voffset(locs) + SIZE_VOFFSET

\* vtable_len of write_vtable
VTableLen(locs) ==
    IF max_voffset(locs) = NoRet THEN field_index_to_field_offset(0)
    ELSE max_voffset(locs) + SIZE_VOFFSET

\* a - b on u32, then `as VOffsetT`
SubAsVOffset(a, b) == (a - b) % 65536

\* write_vtable_header storing the vtable's length only
write_vtable_header_no_size(s, table_tail_revloc) ==
    IF s.panicked THEN s
    ELSE [s EXCEPT !.owned_buf =
             WriteAt(s.owned_buf, s.head, LE(VTableLen(s.field_locs), SIZE_VOFFSET))]

\* write_vtable: the vtable's length and the object's inline size, at the head.
\* s.ret is object_vtable_revloc; the u32 subtraction panics on overflow
\* in a debug build.
write_vtable_header(s, table_tail_revloc) ==
    IF s.panicked THEN s
    ELSE IF s.debug /\ s.ret < table_tail_revloc THEN Panic(s)
    ELSE IF s.debug /\ s.ret - table_tail_revloc >= 65536 THEN Panic(s)
    ELSE [s EXCEPT !.owned_buf =
             WriteAt(WriteAt(s.owned_buf, s.head,
                             LE(VTableLen(s.field_locs), SIZE_VOFFSET)),
                     s.head + SIZE_VOFFSET,
                     LE(SubAsVOffset(s.ret, table_tail_revloc), SIZE_VOFFSET))]

\* write_field_offset storing the field's tail distance, not its distance
\* from the start of the table
write_field_offset_from_tail(s, fl) ==
    IF s.panicked THEN s
    ELSE [s EXCEPT !.owned_buf =
             WriteAt(s.owned_buf, s.head + fl.id, LE(fl.off % 65536, SIZE_VOFFSET))]

\* write_vtable: one turn of `for &fl in self.field_locs.iter()`
write_field_offset(s, fl) ==
    IF s.panicked THEN s
    ELSE IF s.debug /\ s.ret < fl.off THEN Panic(s)
    ELSE IF s.debug /\ ReadU(Slice(s.owned_buf, s.head + fl.id, SIZE_VOFFSET)) # 0
         THEN Panic(s)
    ELSE [s EXCEPT !.owned_buf =
             WriteAt(s.owned_buf, s.head + fl.id,
                     LE(SubAsVOffset(s.ret, fl.off), SIZE_VOFFSET))]

RECURSIVE write_field_offsets(_, _)
\* write_vtable: for &fl in self.field_locs.iter() { ... }
write_field_offsets(s, i) ==
    IF s.panicked \/ i > Len(s.field_locs) THEN s
    ELSE write_field_offsets(write_field_offset(s, s.field_locs[i]), i + 1)

\* vtable.rs VTable::as_bytes: the region whose length is its own first u16
\* (cut at the end of the buffer, where the slice would be out of range)
VTableBytes(buf, loc) ==
    Slice(buf, loc,
          IF loc + ReadU(Slice(buf, loc, SIZE_VOFFSET)) <= Len(buf)
          THEN ReadU(Slice(buf, loc, SIZE_VOFFSET))
          ELSE Len(buf) - loc)

\* write_vtable: `let mut ret: usize = self.used_space()`, kept in s.vt_use
\* (s.vt keeps the bytes of the vtable just written)
vt_use_init(s) ==
    IF s.panicked THEN s
    ELSE [s EXCEPT !.vt = VTableBytes(s.owned_buf, s.head),
                   !.vt_use = used_space(s)]

RECURSIVE dedup_scan_no_clear(_, _, _)
\* dedup_scan releasing the matched vtable without clearing its bytes
dedup_scan_no_clear(s, i, vtable_len) ==
    IF s.panicked \/ i = 0 THEN s
    ELSE IF VTableBytes(s.owned_buf, s.head + used_space(s) - s.written_vtable_revpos[i])
            = VTableBytes(s.owned_buf, s.head)
         THEN [s EXCEPT !.head = s.head + vtable_len,
                        !.vt_use = s.written_vtable_revpos[i]]
         ELSE dedup_scan_no_clear(s, i - 1, vtable_len)

RECURSIVE dedup_scan(_, _, _)
\* write_vtable: for &vt_rev_pos in self.written_vtable_revpos.iter().rev() { ... }
dedup_scan(s, i, vtable_len) ==
    IF s.panicked \/ i = 0 THEN s
    ELSE IF VTableBytes(s.owned_buf, s.head + used_space(s) - s.written_vtable_revpos[i])
            = VTableBytes(s.owned_buf, s.head)
         THEN [s EXCEPT !.owned_buf = WriteAt(s.owned_buf, s.head, Zeros(vtable_len)),
                        !.head = s.head + vtable_len,
                        !.vt_use = s.written_vtable_revpos[i]]
         ELSE dedup_scan(s, i - 1, vtable_len)

\* keep_vtable recording used_space whether or not the vtable was released
keep_vtable_always(s) ==
    IF s.panicked THEN s
    ELSE [s EXCEPT !.written_vtable_revpos = Append(s.written_vtable_revpos, used_space(s))]

\* write_vtable: if vt_use == self.used_space() { self.written_vtable_revpos.push(..) }
keep_vtable(s) ==
    IF s.panicked \/ s.vt_use # used_space(s) THEN s
    ELSE [s EXCEPT !.written_vtable_revpos = Append(s.written_vtable_revpos, s.vt_use)]

\* patch_soffset storing object_vtable_revloc - vt_use
patch_soffset_reversed(s) ==
    IF s.panicked THEN s
    ELSE [s EXCEPT !.owned_buf =
                      WriteAt(s.owned_buf, s.head + used_space(s) - s.ret,
                              LE(s.ret - s.vt_use, SIZE_SOFFSET)),
                   !.field_locs = <<>>]

\* write_vtable: patch the soffset placeholder, clear field_locs, return
\* object_vtable_revloc (s.ret)
patch_soffset(s) ==
    IF s.panicked THEN s
    ELSE IF s.debug /\ Slice(s.owned_buf, s.head + used_space(s) - s.ret, SIZE_SOFFSET)
                       # LE(VTABLE_SENTINEL, SIZE_UOFFSET)
         THEN Panic(s)
    ELSE [s EXCEPT !.owned_buf =
                      WriteAt(s.owned_buf, s.head + used_space(s) - s.ret,
                              LE(s.vt_use - s.ret, SIZE_SOFFSET)),
                   !.field_locs = <<>>]

\* write_vtable: self.fill(vtable_len)
fill_vtable(s) == IF s.panicked THEN s ELSE fill(s, VTableLen(s.field_locs))

\* write_vtable without the scan: every vtable written is kept
dedup_vtable_never(s) == s

\* write_vtable: the dedup of the vtable just written
dedup_vtable(s) ==
    IF s.panicked THEN s
    ELSE dedup_scan(s, Len(s.written_vtable_revpos), VTableLen(s.field_locs))

write_vtable(s, table_tail_revloc) ==
    patch_soffset(
      keep_vtable(
        dedup_vtable(
          vt_use_init(
            write_field_offsets(
              write_vtable_header(
                fill_vtable(
                  push(assert_nested(s), Scalar(VTABLE_SENTINEL, SIZE_UOFFSET))),
                table_tail_revloc),
              1)))))

\* end_table: self.nested = false; self.field_locs.clear()
close_table(s) ==
    IF s.panicked THEN s ELSE [s EXCEPT !.nested = FALSE, !.field_locs = <<>>]

end_table(s, off) == close_table(write_vtable(assert_nested(s), off))

-----------------------------------------------------------------------------
(* Vectors and strings *)

start_vector(s, len, elem_size) ==
    returns_unit(
      align(align(set_nested(assert_not_nested(s), TRUE),
                  len * elem_size, SIZE_UOFFSET),
            len * elem_size, elem_size))

end_vector(s, num_elems) ==
    push(set_nested(assert_nested(s), FALSE), Scalar(num_elems, SIZE_UOFFSET))

create_string(s, bytes) ==
    returns_used_space(push(assert_not_nested(s), ZeroTerminatedByteSlice(bytes)))

create_byte_string(s, data) ==
    returns_used_space(push(assert_not_nested(s), ZeroTerminatedByteSlice(data)))

create_vector_direct(s, data) ==
    returns_used_space(push(assert_not_nested(s), ByteSlice(data)))

RECURSIVE push_items_rev(_, _, _)
\* create_vector: for i in (0..items.len()).rev() { self.push(items[i]); }
push_items_rev(s, items, i) ==
    IF s.panicked \/ i = 0 THEN s
    ELSE push_items_rev(push(s, items[i]), items, i - 1)

create_vector(s, elemsize, items) ==
    end_vector(push_items_rev(start_vector(s, elemsize, Len(items)), items, Len(items)),
               Len(items))

\* create_vector_of_strings: offsets.set_len(xs.len())
set_len_offsets(s, n) ==
    IF s.panicked THEN s ELSE [s EXCEPT !.offsets = [i \in 1..n |-> WIPOffset(0)]]

\* create_vector_of_strings: offsets[i] = o
set_offset(s, i) ==
    IF s.panicked THEN s ELSE [s EXCEPT !.offsets[i] = WIPOffset(s.ret)]

RECURSIVE create_strings_rev(_, _, _)
\* create_vector_of_strings: for (i, &s) in xs.iter().enumerate().rev() { ... }
create_strings_rev(s, xs, i) ==
    IF s.panicked \/ i = 0 THEN s
    ELSE create_strings_rev(set_offset(create_string(s, xs[i]), i), xs, i - 1)

\* create_vector_of_strings: self.create_vector(&offsets[..])
create_vector_of_offsets(s) ==
    IF s.panicked THEN s ELSE create_vector(s, SIZE_UOFFSET, s.offsets)

create_vector_of_strings(s, xs) ==
    create_vector_of_offsets(
      create_strings_rev(set_len_offsets(assert_not_nested(s), Len(xs)), xs, Len(xs)))

-----------------------------------------------------------------------------
(* Finishing *)

push_bytes_unprefixed(s, x) ==
    emplace(make_space(s, Len(x)),
            [kind |-> "bytes", size |-> Len(x), alignment |-> 1, bytes |-> x,
             value |-> 0])

\* finish_with_opts: self.written_vtable_revpos.clear()
clear_vtables(s) ==
    IF s.panicked THEN s ELSE [s EXCEPT !.written_vtable_revpos = <<>>]

\* finish_with_opts: self.align(to_align, self.min_align)
align_to_min(s, to_align) ==
    IF s.panicked THEN s ELSE align(s, to_align, s.min_align)

\* finish_with_opts: if let Some(ident) = file_identifier { ... }
\* (file_identifier is <<>> for None)
push_identifier(s, file_identifier) ==
    IF file_identifier = <<>> THEN s
    ELSE push_bytes_unprefixed(
           DebugRequire(s, Len(file_identifier) = FILE_IDENTIFIER_LENGTH),
           file_identifier)

\* push_size_prefix pushing the size with the prefix counted in
push_size_prefix_inclusive(s, size_prefixed) ==
    IF s.panicked \/ ~size_prefixed THEN s
    ELSE push(s, Scalar(used_space(s) + SIZE_UOFFSET, SIZE_UOFFSET))

\* finish_with_opts: if size_prefixed { self.push::<UOffsetT>(sz) }
push_size_prefix(s, size_prefixed) ==
    IF s.panicked \/ ~size_prefixed THEN s
    ELSE push(s, Scalar(used_space(s), SIZE_UOFFSET))

\* finish_with_opts: self.finished = true
set_finished(s) ==
    IF s.panicked THEN s ELSE [s EXCEPT !.finished = TRUE, !.ret = NoRet]

finish_with_opts(s, root, file_identifier, size_prefixed) ==
    set_finished(
      push_size_prefix(
        push(
          push_identifier(
            align_to_min(
              clear_vtables(assert_not_nested(assert_not_finished(s))),
              SIZE_UOFFSET
                + (IF size_prefixed THEN SIZE_UOFFSET ELSE 0)
                + (IF file_identifier # <<>> THEN FILE_IDENTIFIER_LENGTH ELSE 0)),
            file_identifier),
          WIPOffset(root)),
        size_prefixed))

finish_size_prefixed(s, root, file_identifier) ==
    finish_with_opts(s, root, file_identifier, TRUE)

finish(s, root, file_identifier) ==
    finish_with_opts(s, root, file_identifier, FALSE)

finish_minimal(s, root) == finish_with_opts(s, root, <<>>, FALSE)

finished_data(s) == returns_unit(assert_finished(s))

-----------------------------------------------------------------------------
(* Public operations *)

\* the fields of self after a call that returned s
Commit(s) ==
    /\ owned_buf' = s.owned_buf
    /\ head' = s.head
    /\ field_locs' = s.field_locs
    /\ written_vtable_revpos' = s.written_vtable_revpos
    /\ nested' = s.nested
    /\ finished' = s.finished
    /\ min_align' = s.min_align

\* `calls` once the run is no short run on a fresh builder: a reset was
\* called, or more than MaxCalls calls were made
LongRun == <<<<"...", <<>>>>>>

\* one public call: its name, its arguments, and the record it returned.
\* A call that panics ends the run and leaves the fields as they were.
Call(name, a, s) ==
    /\ ~panicked
    /\ ops_left > 0
    /\ Len(s.owned_buf) <= MaxCap
    /\ ops_left' = ops_left - 1
    /\ op' = name
    /\ arg' = a
    /\ calls' = IF calls = LongRun \/ name = "reset" \/ Len(calls) > MaxCalls
                THEN LongRun
                ELSE Append(calls, <<name, a>>)
    /\ panicked' = s.panicked
    /\ ret' = IF s.panicked THEN NoRet ELSE s.ret
    /\ before' = Self
    /\ IF s.panicked THEN Commit(Self) ELSE Commit(s)
    /\ UNCHANGED debug_assertions

new_with_capacity(size) ==
    [owned_buf |-> Zeros(size), head |-> size, field_locs |-> <<>>,
     written_vtable_revpos |-> <<>>, nested |-> FALSE, finished |-> FALSE,
     min_align |-> 0]

reset(s) ==
    LET to_clear == Len(s.owned_buf) - s.head
    IN [s EXCEPT !.owned_buf = WriteAt(s.owned_buf, s.head, Zeros(to_clear)),
                 !.head = Len(s.owned_buf),
                 !.written_vtable_revpos = <<>>,
                 !.nested = FALSE,
                 !.finished = FALSE,
                 !.min_align = 0,
                 !.ret = NoRet]

(* What the caller passes *)

U8 == Scalar(18, SIZE_U8)
U16 == Scalar(4660, SIZE_U16)
U32 == Scalar(305419896, SIZE_UOFFSET)

\* the scalars a caller pushes
Scalars == {U8, U16, U32}

\* <<value, default>> of push_slot
SlotValues ==
    {<<U8, Scalar(0, SIZE_U8)>>, <<U16, Scalar(0, SIZE_U16)>>,
     <<U32, Scalar(0, SIZE_UOFFSET)>>, <<Scalar(0, SIZE_U16), Scalar(0, SIZE_U16)>>}

\* vtable byte offsets of fields 0 and 1
SlotIds == {field_index_to_field_offset(0), field_index_to_field_offset(1)}

\* <<len, elem_size>> of start_vector
VectorShapes == {<<2, 1>>, <<1, 2>>, <<1, 8>>}

Strings == {<<>>, <<97, 98>>}

ByteSlices == {<<>>, <<1, 2, 3>>}

\* <<size_of::<T>(), items>> of create_vector
VectorItems ==
    {<<SIZE_U8, <<>>>>, <<SIZE_U8, <<U8, U8, U8, U8, U8>>>>, <<SIZE_U16, <<U16, U16>>>>}

StringLists == {<<>>, <<<<97>>, <<98, 99>>>>}

\* None, or a file identifier
Identifiers == {<<>>, <<65, 66, 67, 68>>}

\* the root the caller finishes with: the last table ended, or else the
\* object written last
Root == IF tables # <<>> THEN tables[Len(tables)].handle ELSE Len(owned_buf) - head

Capacities == {0, 8}

InitBuilder(limit, builds) ==
    /\ \E size \in Capacities :
         LET b == new_with_capacity(size)
         IN /\ owned_buf = b.owned_buf
            /\ head = b.head
            /\ field_locs = b.field_locs
            /\ written_vtable_revpos = b.written_vtable_revpos
            /\ nested = b.nested
            /\ finished = b.finished
            /\ min_align = b.min_align
            /\ calls = <<<<"new", <<size>>>>>>
    /\ debug_assertions \in builds
    /\ panicked = FALSE
    /\ op = "new"
    /\ arg = <<>>
    /\ ret = NoRet
    /\ before = Self
    /\ open_table = NoRet
    /\ in_table = FALSE
    /\ fields = <<>>
    /\ tables = <<>>
    /\ ops_left = limit

\* a debug build (the assertions compiled in), any call in any state
Init == InitBuilder(MaxOps, {TRUE})

\* the caller's view after a call that is no part of building a table
Outside(s) ==
    /\ in_table' = (in_table /\ s.panicked)
    /\ UNCHANGED <<open_table, fields, tables>>

Reset ==
    /\ Call("reset", <<>>, reset(Self))
    /\ in_table' = FALSE
    /\ tables' = <<>>
    /\ UNCHANGED <<open_table, fields>>

Push ==
    \E x \in Scalars :
        /\ Call("push", x, push(Self, x))
        /\ UNCHANGED <<open_table, in_table, fields, tables>>

PushSlot ==
    \E slotoff \in SlotIds, xd \in SlotValues :
        LET s == push_slot(Self, slotoff, xd[1], xd[2])
        IN /\ Call("push_slot", <<slotoff, xd[1], xd[2]>>, s)
           /\ fields' = IF s.panicked \/ xd[1] = xd[2] THEN fields
                        ELSE Append(fields, [id |-> slotoff, x |-> xd[1]])
           /\ UNCHANGED <<open_table, in_table, tables>>

PushSlotAlways ==
    \E slotoff \in SlotIds :
        LET s == push_slot_always(Self, slotoff, U8)
        IN /\ Call("push_slot_always", <<slotoff, U8>>, s)
           /\ fields' = IF s.panicked THEN fields
                        ELSE Append(fields, [id |-> slotoff, x |-> U8])
           /\ UNCHANGED <<open_table, in_table, tables>>

StartTable ==
    LET s == start_table(Self)
    IN /\ Call("start_table", <<>>, s)
       /\ open_table' = IF s.panicked THEN open_table ELSE s.ret
       /\ in_table' = (s.panicked => in_table)
       /\ fields' = IF s.panicked THEN fields ELSE <<>>
       /\ UNCHANGED tables

EndTable ==
    /\ open_table # NoRet
    /\ LET s == end_table(Self, open_table)
       IN /\ Call("end_table", <<open_table>>, s)
          /\ in_table' = (in_table /\ s.panicked)
          /\ tables' = IF s.panicked THEN tables
                       ELSE Append(tables,
                              [handle |-> s.ret, tail |-> open_table, vt |-> s.vt,
                               vt_use |-> s.vt_use, fields |-> fields,
                               started |-> in_table,
                               before |-> Len(written_vtable_revpos),
                               after |-> Len(s.written_vtable_revpos)])
          /\ UNCHANGED <<open_table, fields>>

StartVector ==
    \E shape \in VectorShapes :
        LET s == start_vector(Self, shape[1], shape[2])
        IN /\ Call("start_vector", shape, s)
           /\ Outside(s)

EndVector ==
    \E num_elems \in {0, 2} :
        LET s == end_vector(Self, num_elems)
        IN /\ Call("end_vector", <<num_elems>>, s)
           /\ Outside(s)

CreateString ==
    \E str \in Strings :
        LET s == create_string(Self, str)
        IN /\ Call("create_string", str, s)
           /\ Outside(s)

CreateByteString ==
    \E data \in ByteSlices :
        LET s == create_byte_string(Self, data)
        IN /\ Call("create_byte_string", data, s)
           /\ Outside(s)

CreateVectorDirect ==
    \E data \in ByteSlices :
        LET s == create_vector_direct(Self, data)
        IN /\ Call("create_vector_direct", data, s)
           /\ Outside(s)

CreateVector ==
    \E it \in VectorItems :
        LET s == create_vector(Self, it[1], it[2])
        IN /\ Call("create_vector", it[2], s)
           /\ Outside(s)

CreateVectorOfStrings ==
    \E xs \in StringLists :
        LET s == create_vector_of_strings(Self, xs)
        IN /\ Call("create_vector_of_strings", xs, s)
           /\ Outside(s)

\* the caller's view after a finish call
Finished(s) ==
    /\ in_table' = (in_table /\ s.panicked)
    /\ tables' = IF s.panicked THEN tables ELSE <<>>
    /\ UNCHANGED <<open_table, fields>>

Finish ==
    \E ident \in Identifiers :
        LET s == finish(Self, Root, ident)
        IN /\ Call("finish", <<Root, ident>>, s)
           /\ Finished(s)

FinishSizePrefixed ==
    \E ident \in Identifiers :
        LET s == finish_size_prefixed(Self, Root, ident)
        IN /\ Call("finish_size_prefixed", <<Root, ident>>, s)
           /\ Finished(s)

FinishMinimal ==
    LET s == finish_minimal(Self, Root)
    IN /\ Call("finish_minimal", <<Root>>, s)
       /\ Finished(s)

FinishedData ==
    /\ Call("finished_data", <<>>, finished_data(Self))
    /\ UNCHANGED <<open_table, in_table, fields, tables>>

Next ==
    \/ Reset
    \/ Push
    \/ PushSlot
    \/ PushSlotAlways
    \/ StartTable
    \/ EndTable
    \/ StartVector
    \/ EndVector
    \/ CreateString
    \/ CreateByteString
    \/ CreateVectorDirect
    \/ CreateVector
    \/ CreateVectorOfStrings
    \/ Finish
    \/ FinishSizePrefixed
    \/ FinishMinimal
    \/ FinishedData

Spec == Init /\ [][Next]_vars

(* Tables only, in longer runs of a debug build, where a call out of
   protocol panics *)

InitTables == InitBuilder(MaxTableOps, {TRUE})

NextTables ==
    \/ StartTable
    \/ PushSlot
    \/ EndTable
    \/ Reset
    \/ FinishMinimal

SpecTables == InitTables /\ [][NextTables]_vars

(* All operations in short runs of either build: debug, or release, where
   debug_assert! is compiled out and arithmetic wraps *)

InitBuilds == InitBuilder(MaxBuildOps, BOOLEAN)

SpecBuilds == InitBuilds /\ [][Next]_vars

-----------------------------------------------------------------------------
(* Properties *)

\* the byte at distance d from the tail of buf: buf[cap - d]
TailByte(buf, d) == buf[Len(buf) - d + 1]

\* the bytes at tail distances 1..n are the same in both buffers
SameTail(a, b, n) == \A d \in 1..n : TailByte(a, d) = TailByte(b, d)

UsedSpace == Len(owned_buf) - head

\* C1: in every state a run of public operations reaches without panicking
\* on an assertion, finished implies not nested.
C1_FinishedNotNested ==
    ~panicked => (finished => ~nested)

\* C2: between public operations of a run that did not panic on an
\* assertion, field_locs is empty whenever nested is false.
C2_NotNestedNoFieldLocs ==
    ~panicked => (~nested => field_locs = <<>>)

\* C3: handles are stable.  A handle is at most used_space when it is
\* returned, and every operation other than reset leaves the bytes at tail
\* distances 1..used_space as they were, however often the buffer grew in
\* it; the offsets recorded in field_locs are kept by push and push_slot;
\* and grow_owned_buf itself, in any reachable state, changes neither
\* used_space nor field_locs nor the bytes of the live data.
C3_HandlesStable ==
    /\ (ret # NoRet => ret <= UsedSpace)
    /\ (~panicked /\ op \notin {"new", "reset"}) =>
          /\ used_space(before) <= UsedSpace
          /\ SameTail(owned_buf, before.owned_buf, used_space(before))
    /\ (~panicked /\ op \in {"push", "push_slot", "push_slot_always"}) =>
          /\ Len(before.field_locs) <= Len(field_locs)
          /\ SubSeq(field_locs, 1, Len(before.field_locs)) = before.field_locs
    /\ LET grown == grow_owned_buf(Self)
       IN  /\ used_space(grown) = UsedSpace
           /\ grown.field_locs = field_locs
           /\ SameTail(grown.owned_buf, owned_buf, UsedSpace)

\* C3 witness: a push_slot grew the buffer while a table with a recorded
\* field was under construction.
C3_Witness ==
    /\ ~panicked /\ op = "push_slot"
    /\ before.nested /\ nested /\ in_table
    /\ before.field_locs # <<>>
    /\ Len(owned_buf) > Len(before.owned_buf)
    /\ used_space(before) > 0


\* C4: after every push of a value of size s and alignment a, used_space is
\* a multiple of a, the s bytes at the head are the little-endian encoding
\* of the value, and the handle returned (for push_slot, the offset
\* recorded in field_locs) is used_space.
C4_PushAlignsAndEncodes ==
    /\ (~panicked /\ op = "push") =>
          /\ UsedSpace % arg.alignment = 0
          /\ Slice(owned_buf, head, arg.size) = LE(arg.value, arg.size)
          /\ ret = UsedSpace
    /\ (~panicked /\ (op = "push_slot_always" \/ (op = "push_slot" /\ arg[2] # arg[3]))) =>
          /\ UsedSpace % arg[2].alignment = 0
          /\ Slice(owned_buf, head, arg[2].size) = LE(arg[2].value, arg[2].size)
          /\ field_locs # <<>>
          /\ field_locs[Len(field_locs)] = [off |-> UsedSpace, id |-> arg[1]]

\* C4 witness: a u32 was pushed where padding was needed first.
C4_Witness ==
    /\ ~panicked /\ op = "push" /\ arg = U32
    /\ used_space(before) % SIZE_UOFFSET # 0
    /\ UsedSpace > used_space(before) + SIZE_UOFFSET

\* byte index of the start of an ended table t (a record of `tables`)
TablePos(t) == Len(owned_buf) - t.handle

\* the signed 32-bit soffset stored at the start of the table
SOffsetOf(t) == ReadI32(Slice(owned_buf, TablePos(t), SIZE_SOFFSET))

\* byte index of the vtable write_vtable chose for the table (vt_use)
ChosenVTablePos(t) == Len(owned_buf) - t.vt_use

\* byte index of the vtable a reader finds from the table: table - soffset
PointedVTablePos(t) == TablePos(t) - SOffsetOf(t)

DistinctIds(fs) == \A i, j \in 1..Len(fs) : fs[i].id = fs[j].id => i = j

\* C5: for every table built by start_table, push_slot(id_i, v_i, d_i) with
\* v_i # d_i and distinct ids, end_table: the vtable the table points to
\* holds at each id_i a nonzero u16 slot whose value, added to the table's
\* start index, is the index of the little-endian encoding of v_i, whether
\* the vtable was newly written or reused.
C5_VTableLocatesFields ==
    ~panicked =>
      \A k \in 1..Len(tables) :
        LET t == tables[k]
        IN (t.started /\ DistinctIds(t.fields)) =>
             \A i \in 1..Len(t.fields) :
               LET f == t.fields[i]
                   slot == ReadU(Slice(owned_buf, PointedVTablePos(t) + f.id, SIZE_VOFFSET))
               IN /\ PointedVTablePos(t) >= head
                  /\ f.id + SIZE_VOFFSET
                       <= ReadU(Slice(owned_buf, PointedVTablePos(t), SIZE_VOFFSET))
                  /\ slot # 0
                  /\ Slice(owned_buf, TablePos(t) + slot, f.x.size) = LE(f.x.value, f.x.size)

\* C5 witness: a table with a field was ended and reuses the vtable of an
\* earlier table.
C5_Witness ==
    /\ ~panicked /\ op = "end_table"
    /\ Len(tables) >= 2
    /\ tables[Len(tables)].fields # <<>>
    /\ tables[Len(tables)].after = tables[Len(tables)].before
    /\ PointedVTablePos(tables[Len(tables)]) > TablePos(tables[Len(tables)])

\* the vtable bytes vt were synthesized by one of the tables before the k-th
KnownBefore(k, vt) == \E m \in 1..(k - 1) : tables[m].vt = vt

\* the growth of num_written_vtables across the k-th and the next table
GrowthOfPair(k) == tables[k + 1].after - tables[k].before

\* C6 as stated: any two tables built one after the other with no finish or
\* reset in between grow num_written_vtables by exactly 1 if their vtables
\* are byte-identical, the second using the first's vtable, and by 2 if
\* their vtables differ.
C6_DedupCountAsStated ==
    ~panicked =>
      \A k \in 1..(Len(tables) - 1) :
        IF tables[k].vt = tables[k + 1].vt
        THEN GrowthOfPair(k) = 1 /\ tables[k + 1].vt_use = tables[k].vt_use
        ELSE GrowthOfPair(k) = 2

\* C6 amended: two tables built one after the other with byte-identical
\* vtables grow num_written_vtables by 1 if no identical vtable was written
\* since the last finish or reset and by 0 if one was, and both tables point
\* to the same vtable; two tables whose vtables differ grow it by one for
\* each of the two vtables that was not written before.
C6_DedupCount ==
    ~panicked =>
      \A k \in 1..(Len(tables) - 1) :
        IF tables[k].vt = tables[k + 1].vt
        THEN /\ GrowthOfPair(k) = (IF KnownBefore(k, tables[k].vt) THEN 0 ELSE 1)
             /\ tables[k + 1].vt_use = tables[k].vt_use
             /\ PointedVTablePos(tables[k + 1]) = PointedVTablePos(tables[k])
        ELSE GrowthOfPair(k) = (IF KnownBefore(k, tables[k].vt) THEN 0 ELSE 1)
                             + (IF KnownBefore(k, tables[k + 1].vt) THEN 0 ELSE 1)

\* C6 witness: the first two tables carry a field each and share one vtable.
C6_Witness ==
    /\ ~panicked /\ Len(tables) = 2
    /\ tables[1].fields # <<>>
    /\ tables[1].vt = tables[2].vt
    /\ tables[2].after = tables[1].before + 1
    /\ Len(written_vtable_revpos) = 1

\* C7 as stated: after every end_table the soffset at the table's start is
\* vtable_pos - table_pos, negative when the vtable comes after the table.
C7_SOffsetAsStated ==
    ~panicked =>
      \A k \in 1..Len(tables) :
        /\ SOffsetOf(tables[k]) = ChosenVTablePos(tables[k]) - TablePos(tables[k])
        /\ ChosenVTablePos(tables[k]) > TablePos(tables[k]) => SOffsetOf(tables[k]) < 0

\* C7 amended: after every end_table the soffset at the table's start is
\* table_pos - vtable_pos, where vtable_pos is the index of the chosen
\* vtable, whose bytes are the vtable synthesized for the table; it is
\* negative when the vtable comes after the table.
C7_SOffset ==
    ~panicked =>
      \A k \in 1..Len(tables) :
        /\ SOffsetOf(tables[k]) = TablePos(tables[k]) - ChosenVTablePos(tables[k])
        /\ VTableBytes(owned_buf, ChosenVTablePos(tables[k])) = tables[k].vt
        /\ ChosenVTablePos(tables[k]) > TablePos(tables[k]) => SOffsetOf(tables[k]) < 0

\* C7 witness: an ended table whose vtable, reused, comes after it.
C7_Witness ==
    /\ ~panicked /\ op = "end_table"
    /\ tables # <<>>
    /\ ChosenVTablePos(tables[Len(tables)]) > TablePos(tables[Len(tables)])
    /\ SOffsetOf(tables[Len(tables)]) < 0

IsPowerOfTwo(n) == n \in {1, 2, 4, 8, 16, 32, 64, 128}

Max(a, b) == IF a >= b THEN a ELSE b

\* C8: between public operations min_align is a power of two, on a fresh or
\* reset builder too, and is the greatest alignment requested so far: a push
\* raises it to the alignment of the value if that is greater, a
\* create_vector to the greater of the length prefix's alignment and the
\* element's.
C8_MinAlign ==
    ~panicked =>
      /\ IsPowerOfTwo(min_align)
      /\ op = "push" => min_align = Max(before.min_align, arg.alignment)
      /\ (op = "create_vector" /\ arg # <<>>) =>
            min_align = Max(before.min_align, Max(SIZE_UOFFSET, arg[1].alignment))

\* Once an alignment was requested, min_align is a power of two.  (The
\* part of C8 that does not concern the fresh builder; create_vector over
\* five u8 refutes it.)
MinAlignZeroOrPowerOfTwo ==
    ~panicked => (min_align = 0 \/ IsPowerOfTwo(min_align))

\* C9: after every finish, finish_minimal or finish_size_prefixed that
\* returned, used_space is a multiple of min_align.
C9_FinishedAligned ==
    (~panicked /\ op \in {"finish", "finish_minimal", "finish_size_prefixed"}) =>
        /\ finished
        /\ min_align > 0
        /\ UsedSpace % Max(min_align, 1) = 0

\* C10: create_vector over an empty slice, called when no table or vector
\* is under construction and the buffer is not finished, returns whether or
\* not the buffer is empty, and adds only padding and a u32 length prefix
\* of 0, leaving used_space aligned.
C10_EmptyVector ==
    (op = "create_vector" /\ arg = <<>> /\ ~before.nested /\ ~before.finished) =>
        /\ ~panicked
        /\ Slice(owned_buf, head, SIZE_UOFFSET) = LE(0, SIZE_UOFFSET)
        /\ ret = UsedSpace
        /\ UsedSpace % SIZE_UOFFSET = 0
        /\ UsedSpace - used_space(before) < 2 * SIZE_UOFFSET
        /\ ~nested

\* a fresh builder of capacity cap, as a record of the shape of Self
Fresh(cap) ==
    [Self EXCEPT !.owned_buf = new_with_capacity(cap).owned_buf,
                 !.head = new_with_capacity(cap).head,
                 !.field_locs = new_with_capacity(cap).field_locs,
                 !.written_vtable_revpos = new_with_capacity(cap).written_vtable_revpos,
                 !.nested = new_with_capacity(cap).nested,
                 !.finished = new_with_capacity(cap).finished,
                 !.min_align = new_with_capacity(cap).min_align]

\* what a caller sees of builder s: whether the call panicked, the handle
\* returned, num_written_vtables, and the live bytes
Observed(s) ==
    [panicked |-> s.panicked,
     ret |-> IF s.panicked THEN NoRet ELSE s.ret,
     num_written_vtables |-> IF s.panicked THEN 0 ELSE Len(s.written_vtable_revpos),
     data |-> IF s.panicked THEN <<>> ELSE Slice(s.owned_buf, s.head, used_space(s))]

\* start_table; end_table on builder s
EmptyTableOn(s) == end_table(start_table(s), start_table(s).ret)

\* start_table; end_table; finish_minimal on builder s
EmptyRootOn(s) == finish_minimal(EmptyTableOn(s), EmptyTableOn(s).ret)

\* C11: after reset, called in any state, the builder is observationally a
\* fresh builder of the same capacity: num_written_vtables is 0,
\* unfinished_data is empty, the flags are cleared, and later operations
\* (here start_table; end_table, then finish_minimal, and a push) produce
\* the bytes and handles they produce on the fresh builder.
C11_ResetIsFresh ==
    (op = "reset" /\ ~panicked) =>
        /\ written_vtable_revpos = <<>>
        /\ UsedSpace = 0
        /\ ~nested /\ ~finished
        /\ Observed(push(Self, U32)) = Observed(push(Fresh(Len(owned_buf)), U32))
        /\ Observed(EmptyTableOn(Self)) = Observed(EmptyTableOn(Fresh(Len(owned_buf))))
        /\ Observed(EmptyRootOn(Self)) = Observed(EmptyRootOn(Fresh(Len(owned_buf))))

\* the builder fields of record s are those of record r
SameFields(s, r) ==
    /\ s.owned_buf = r.owned_buf /\ s.head = r.head
    /\ s.field_locs = r.field_locs
    /\ s.written_vtable_revpos = r.written_vtable_revpos
    /\ s.nested = r.nested /\ s.finished = r.finished
    /\ s.min_align = r.min_align

\* the call that returned s panicked before it changed anything
Rejected(s) == s.panicked /\ SameFields(s, Self)

\* the finish* calls, made now
FinishCalls ==
    {finish(Self, Root, ident) : ident \in Identifiers}
      \cup {finish_size_prefixed(Self, Root, ident) : ident \in Identifiers}
      \cup {finish_minimal(Self, Root)}

\* the calls, made now, that the protocol allows only outside a table or vector
CallsOutside ==
    {start_table(Self)}
      \cup {start_vector(Self, shape[1], shape[2]) : shape \in VectorShapes}
      \cup {create_string(Self, str) : str \in Strings}
      \cup {create_byte_string(Self, data) : data \in ByteSlices}
      \cup {create_vector_direct(Self, data) : data \in ByteSlices}
      \cup {create_vector_of_strings(Self, xs) : xs \in StringLists}
      \cup FinishCalls

\* the calls, made now, that the protocol allows only inside a table or vector
CallsInside ==
    {push_slot(Self, slotoff, xd[1], xd[2]) : slotoff \in SlotIds, xd \in SlotValues}
      \cup {push_slot_always(Self, slotoff, U8) : slotoff \in SlotIds}
      \cup {end_table(Self, off) : off \in {0, UsedSpace}}
      \cup {end_vector(Self, num_elems) : num_elems \in {0, 2}}

\* every call out of protocol, made in the current state, is rejected
ViolationsRejected ==
    /\ nested => \A s \in CallsOutside : Rejected(s)
    /\ ~nested => \A s \in CallsInside : Rejected(s)
    /\ finished => \A s \in FinishCalls : Rejected(s)
    /\ ~finished => Rejected(finished_data(Self))

\* C12 as stated: in every state, of any build, a call out of protocol
\* aborts and takes no effect.
C12_ViolationsAbortAsStated == ~panicked => ViolationsRejected

\* C12 amended: in a build with debug assertions, a call out of protocol
\* panics before it changes any field: start_table, start_vector,
\* create_string, create_byte_string, create_vector_direct,
\* create_vector_of_strings and finish* when nested; push_slot,
\* push_slot_always, end_table and end_vector when not nested; finish* when
\* finished; finished_data when not finished.
C12_ViolationsAbort == (debug_assertions /\ ~panicked) => ViolationsRejected

\* C12 witness: a debug build panicked on start_table inside a table.
C12_Witness ==
    /\ debug_assertions /\ panicked
    /\ op = "start_table" /\ before.nested
    /\ SameFields(Self, before)

\* the live bytes buf[head..] of builder s
LiveData(s) == Slice(s.owned_buf, s.head, used_space(s))

\* the operations C13 names as mutating the buffer
MutatingOps ==
    {"push", "start_table", "start_vector", "create_string", "create_byte_string",
     "create_vector_direct", "create_vector",
     "finish", "finish_minimal", "finish_size_prefixed"}

\* C13: an operation other than reset called on a finished builder leaves
\* it finished with the same finished bytes, and if it is one of the
\* mutating operations (push, start_table, start_vector, create_string,
\* create_byte_string, create_vector_direct, create_vector, finish*) it
\* panics.
C13_FinishedUntilReset ==
    (before.finished /\ op # "reset") =>
        /\ op \in MutatingOps => panicked
        /\ finished
        /\ LiveData(Self) = LiveData(before)

\* the names of new and the calls made on the fresh builder
CallNames == [i \in 1..Len(calls) |-> calls[i][1]]

\* the finished bytes, and in them the root table and its vtable
FinishedBytes == LiveData(Self)
RootPos == ReadU(Slice(FinishedBytes, 0, SIZE_UOFFSET))
RootVTablePos == RootPos - ReadI32(Slice(FinishedBytes, RootPos, SIZE_SOFFSET))

\* on a fresh builder: start_table; push_slot(4, 0x1234u16, 0); end_table;
\* finish_minimal, none of which panicked
RanU16Table ==
    /\ ~panicked
    /\ CallNames = <<"new", "start_table", "push_slot", "end_table", "finish_minimal">>
    /\ calls[3][2] = <<4, U16, Scalar(0, SIZE_U16)>>

\* C14 as stated: the run emits the vtable 06 00 06 00 04 00 and the table
\* 06 00 00 00 00 00 34 12, preceded by the root offset.
C14_U16TableAsStated ==
    RanU16Table =>
        /\ Slice(FinishedBytes, RootVTablePos, 6) = <<6, 0, 6, 0, 4, 0>>
        /\ Slice(FinishedBytes, RootPos, 8) = <<6, 0, 0, 0, 0, 0, 52, 18>>

\* C14 amended: the run emits the vtable 06 00 08 00 06 00 (length 6,
\* object size 8, field offset 6) and the table 06 00 00 00 00 00 34 12;
\* the finished bytes are the root offset 12, two bytes of padding, the
\* vtable and the table.
C14_U16Table ==
    RanU16Table =>
        /\ Slice(FinishedBytes, RootVTablePos, 6) = <<6, 0, 8, 0, 6, 0>>
        /\ Slice(FinishedBytes, RootPos, 8) = <<6, 0, 0, 0, 0, 0, 52, 18>>
        /\ FinishedBytes = <<12, 0, 0, 0, 0, 0>> \o <<6, 0, 8, 0, 6, 0>>
                             \o <<6, 0, 0, 0, 0, 0, 52, 18>>

\* C14 witness: the run was made and the buffer is finished.
C14_Witness == RanU16Table /\ finished /\ op = "finish_minimal"

\* on a fresh builder of capacity 0: start_table; end_table; finish_minimal,
\* none of which panicked
RanEmptyTable ==
    /\ ~panicked
    /\ CallNames = <<"new", "start_table", "end_table", "finish_minimal">>
    /\ calls[1][2] = <<0>>

\* C15: that run yields exactly the 12 finished bytes
\* 08 00 00 00 04 00 04 00 04 00 00 00: root uoffset 8, vtable length 4,
\* object size 4, soffset 4; the u32 at the start is the index of the root
\* table, whose soffset leads to the vtable.
C15_EmptyTable ==
    RanEmptyTable =>
        /\ finished
        /\ FinishedBytes = <<8, 0, 0, 0, 4, 0, 4, 0, 4, 0, 0, 0>>
        /\ RootPos = 8
        /\ ReadI32(Slice(FinishedBytes, RootPos, SIZE_SOFFSET)) = 4
        /\ RootVTablePos = 4
        /\ ReadU(Slice(FinishedBytes, RootVTablePos, SIZE_VOFFSET)) = 4
        /\ ReadU(Slice(FinishedBytes, RootVTablePos + SIZE_VOFFSET, SIZE_VOFFSET)) = 4

\* C15 witness: the run was made from capacity 0 and the buffer grew to 16.
C15_Witness ==
    /\ RanEmptyTable /\ finished
    /\ Len(owned_buf) = 16 /\ head = 4

\* the u16 at byte offset at of the vtable the ended table t points to
VTableField(t, at) == ReadU(Slice(owned_buf, PointedVTablePos(t) + at, SIZE_VOFFSET))

\* C16: every table ended after start_table and no push_slot of a
\* non-default value, whatever idle state it was started in, points with
\* its soffset to a vtable of length 4 (header only) whose object inline
\* size is the extent of the table: 4, just the soffset, when the table was
\* started at a multiple of 4, and 4 plus the padding before the soffset
\* otherwise.
C16_DefaultTable ==
    ~panicked =>
      \A k \in 1..Len(tables) :
        (tables[k].started /\ tables[k].fields = <<>>) =>
            /\ PointedVTablePos(tables[k]) = ChosenVTablePos(tables[k])
            /\ VTableField(tables[k], 0) = 4
            /\ VTableField(tables[k], SIZE_VOFFSET) = tables[k].handle - tables[k].tail
            /\ tables[k].tail % SIZE_SOFFSET = 0 =>
                  VTableField(tables[k], SIZE_VOFFSET) = 4

\* C17: after every finish with a file identifier the four identifier
\* bytes follow the root uoffset at once: they are finished_data[4..8]
\* after finish and finished_data[8..12] after finish_size_prefixed,
\* whatever was pushed before.
C17_IdentifierAfterRoot ==
    /\ (~panicked /\ op = "finish" /\ arg[2] # <<>>) =>
          Slice(FinishedBytes, SIZE_UOFFSET, FILE_IDENTIFIER_LENGTH) = arg[2]
    /\ (~panicked /\ op = "finish_size_prefixed" /\ arg[2] # <<>>) =>
          Slice(FinishedBytes, 2 * SIZE_UOFFSET, FILE_IDENTIFIER_LENGTH) = arg[2]

\* the finished bytes after the first four
AfterPrefix == Slice(FinishedBytes, SIZE_UOFFSET, Len(FinishedBytes) - SIZE_UOFFSET)

\* C18 as stated: after every finish_size_prefixed the u32 at the start of
\* finished_data is its length minus 4, and the bytes after it are the
\* finished data that finish, called instead with the same root and
\* identifier, produces.  (Stated for builders whose min_align is a power
\* of two, to leave aside what create_vector does to min_align.)
C18_SizePrefixAsStated ==
    (~panicked /\ op = "finish_size_prefixed" /\ IsPowerOfTwo(before.min_align)) =>
        /\ ReadU(Slice(FinishedBytes, 0, SIZE_UOFFSET)) = Len(FinishedBytes) - SIZE_UOFFSET
        /\ AfterPrefix = LiveData(finish(before, arg[1], arg[2]))

\* C18 amended: after every finish_size_prefixed the u32 at the start of
\* finished_data is its length minus 4; the root uoffset that follows it
\* locates the root, and the bytes written before the call are unchanged;
\* the bytes after the prefix are the finished data finish would have
\* produced when min_align is at most 4, where both calls pad alike (for a
\* greater min_align the padding is computed with the prefix counted in and
\* may differ).
C18_SizePrefix ==
    (~panicked /\ op = "finish_size_prefixed") =>
        /\ ReadU(Slice(FinishedBytes, 0, SIZE_UOFFSET)) = Len(FinishedBytes) - SIZE_UOFFSET
        /\ SIZE_UOFFSET + ReadU(Slice(FinishedBytes, SIZE_UOFFSET, SIZE_UOFFSET))
             = Len(FinishedBytes) - arg[1]
        /\ SameTail(owned_buf, before.owned_buf, used_space(before))
        /\ before.min_align \in {1, 2, 4} =>
              AfterPrefix = LiveData(finish(before, arg[1], arg[2]))

\* C18 witness: a buffer holding a table was finished with a size prefix
\* and an identifier.
C18_Witness ==
    /\ ~panicked /\ op = "finish_size_prefixed" /\ finished
    /\ arg[2] # <<>>
    /\ before.written_vtable_revpos # <<>>
    /\ before.min_align = 4

\* capacity c is capacity b after no, one or more doublings (minimum 1)
GrownFrom(c, b) ==
    \/ c = b
    \/ b = 0 /\ c \in {1, 2, 4, 8, 16, 32, 64}
    \/ b > 0 /\ c \in {b * 2, b * 4, b * 8, b * 16, b * 32, b * 64}

\* sizes asked of ensure_capacity: small ones, and the two's complement of
\* 4 and of 1, which are greater than FLATBUFFERS_MAX_BUFFER_SIZE
Wants == {0, 1, 3, 9, 17, 0 - 4, 0 - 1}

RegionLen(revpos) == ReadU(Slice(owned_buf, Len(owned_buf) - revpos, SIZE_VOFFSET))

\* C20: every value of written_vtable_revpos is at most used_space, and the
\* region that starts at cap - value and whose length is its own first u16
\* is a vtable (a header at least) lying within buf[head..cap]; in every
\* reachable state, so after a dedup released the scratch vtable, after
\* growth, after finish and after reset.
C20_WrittenVTablesValid ==
    \A i \in 1..Len(written_vtable_revpos) :
        /\ written_vtable_revpos[i] <= UsedSpace
        /\ Len(owned_buf) - written_vtable_revpos[i] >= head
        /\ RegionLen(written_vtable_revpos[i]) >= 2 * SIZE_VOFFSET
        /\ RegionLen(written_vtable_revpos[i]) <= written_vtable_revpos[i]

\* C20 witness: an end_table that grew the buffer reused a recorded vtable
\* and released its own.
C20_Witness ==
    /\ ~panicked /\ op = "end_table"
    /\ Len(written_vtable_revpos) = 1
    /\ before.written_vtable_revpos = written_vtable_revpos
    /\ Len(owned_buf) > Len(before.owned_buf)
    /\ written_vtable_revpos[1] < UsedSpace

\* the push_slot just returned was given a value equal to its default
PushedDefault == ~panicked /\ op = "push_slot" /\ arg[2] = arg[3]

\* byte index of the table that record e (returned by end_table) ended
EndedTablePos(e) == Len(e.owned_buf) - e.ret

\* byte index of the vtable a reader finds from that table
EndedVTablePos(e) ==
    EndedTablePos(e) - ReadI32(Slice(e.owned_buf, EndedTablePos(e), SIZE_SOFFSET))

\* the vtable slot at byte offset slotoff of that table: 0 when the vtable
\* is too short to hold it
EndedSlot(e, slotoff) ==
    IF slotoff + SIZE_VOFFSET > ReadU(Slice(e.owned_buf, EndedVTablePos(e), SIZE_VOFFSET))
    THEN 0
    ELSE ReadU(Slice(e.owned_buf, EndedVTablePos(e) + slotoff, SIZE_VOFFSET))

\* no push_slot of the open table stored a value for the slot
NotStored(slotoff) == \A k \in 1..Len(fields) : fields[k].id # slotoff

\* C21: push_slot(id, value, default) with value == default while nested
\* changes no field of the builder (head, the bytes, min_align, field_locs,
\* written_vtable_revpos, the flags), and the slot of that field in the
\* table, once ended, is 0 (absent) when no other push_slot stored it.
C21_DefaultSlotNoOp ==
    (PushedDefault /\ before.nested) =>
        /\ SameFields(Self, before)
        /\ (in_table /\ NotStored(arg[1])) =>
              LET e == end_table(Self, open_table)
              IN ~e.panicked => EndedSlot(e, arg[1]) = 0

\* byte index of the vector the last call returned
VectorPos == Len(owned_buf) - ret

\* byte index of element i (from 1) of that vector
ElementPos(i) == VectorPos + SIZE_UOFFSET + (i - 1) * SIZE_UOFFSET

\* byte index element i resolves to: its position plus the uoffset stored there
ResolvedPos(i) == ElementPos(i) + ReadU(Slice(owned_buf, ElementPos(i), SIZE_UOFFSET))

\* the bytes at byte index at are the string str: length, data, zero
StringAt(at, str) ==
    /\ at + SIZE_UOFFSET + Len(str) + 1 <= Len(owned_buf)
    /\ ReadU(Slice(owned_buf, at, SIZE_UOFFSET)) = Len(str)
    /\ Slice(owned_buf, at + SIZE_UOFFSET, Len(str)) = str
    /\ owned_buf[at + SIZE_UOFFSET + Len(str) + 1] = 0

\* a create_vector_of_strings was called with no table or vector open
CalledVectorOfStrings == op = "create_vector_of_strings" /\ ~before.nested

\* C22: create_vector_of_strings(xs), called with no table or vector open,
\* returns a vector of length len(xs) whose i-th element resolves to the
\* string built from xs[i], for every index i; the strings were built in
\* reverse index order (the last one lies nearest the tail), and the builder
\* is left not nested.
C22_VectorOfStrings ==
    CalledVectorOfStrings =>
        /\ ~panicked
        /\ ~nested
        /\ ret = UsedSpace
        /\ ReadU(Slice(owned_buf, VectorPos, SIZE_UOFFSET)) = Len(arg)
        /\ \A i \in 1..Len(arg) : StringAt(ResolvedPos(i), arg[i])
        /\ \A i, j \in 1..Len(arg) : i < j => ResolvedPos(i) < ResolvedPos(j)

\* every byte of the scratch region buf[0..head) of s is zero
ScratchZero(s) == \A i \in 1..s.head : s.owned_buf[i] = 0

\* numbers of bytes asked of fill
FillSizes == {1, 3, 6, 9}

\* C23: between public operations every byte of the scratch region
\* buf[0..head) is zero (after construction, growth, the release of a
\* scratch vtable by dedup, and reset), so the bytes fill reserves, with or
\* without growth, are zero without being written.
C23_ScratchZero ==
    /\ ScratchZero(Self)
    /\ ~panicked => \A n \in FillSizes :
          LET f == fill(Self, n)
          IN ~f.panicked => /\ f.head = head + (Len(f.owned_buf) - Len(owned_buf)) - n
                            /\ Slice(f.owned_buf, f.head, n) = Zeros(n)
                            /\ ScratchZero(f)

\* C23 witness: an end_table matched a recorded vtable and released its
\* own, whose bytes now lie in the scratch region.
C23_Witness ==
    /\ ~panicked /\ op = "end_table" /\ tables # <<>>
    /\ tables[Len(tables)].after = tables[Len(tables)].before
    /\ tables[Len(tables)].vt_use < ret
    /\ head >= Len(tables[Len(tables)].vt)
    /\ head = before.head + (Len(owned_buf) - Len(before.owned_buf)) - SIZE_SOFFSET

====
